---------------------------- MODULE Spec2Model ----------------------------
(***************************************************************************)
(* The DT protocol: a UDP date/time responder (server.py) serving three    *)
(* languages on three sockets, and a one-shot requester (client.py).       *)
(*                                                                         *)
(* Datagrams are sequences of bytes (0..255).  Texts are sequences of      *)
(* Unicode code points; command-line arguments are sequences of one-       *)
(* character strings.  Python's 0-based indices are kept in the operators  *)
(* that model slices and subscripts.                                       *)
(***************************************************************************)
EXTENDS Integers, Sequences, FiniteSets, TLC

VARIABLES
    \* ---- responder (server.py) ----
    argv,       \* sys.argv[1:], each argument a sequence of characters
    spc,        \* position of main(): "start", "bind", "select", "service", "exited"
    sexit,      \* exit status of the responder process, -1 while it runs
    ports,      \* the list returned by get_valid_portnum, <<>> before/without it
    sockets,    \* the list `sockets` of main(): socket ids in binding order
    sockState,  \* socket id -> "none" | "open" | "closed"
    queue,      \* socket id -> datagrams the transport holds for it, oldest first
    pending,    \* socket id -> "none" | "corrupt" | "error": a readiness with no datagram
    ready,      \* ready_socks still to be serviced in the current wake-up
    readLog,    \* history: every datagram recvfrom returned, with its outcome
    outbox,     \* every datagram the responder handed to sendto successfully
    slog,       \* the lines the responder printed
    events,     \* number of datagrams and disturbances the transport has delivered
    \* ---- requester (client.py) ----
    cargv,      \* sys.argv[1:] of the requester: <<kind, host, port>>
    cpc,        \* position of the requester's main()
    cexit,      \* exit status of the requester, -1 while it runs
    creqtype,   \* main()'s request_type, 0 before it is set
    cport,      \* main()'s port, 0 before it is set
    csock,      \* "none" | "open" | "closed"
    csent,      \* datagrams the requester handed to sendto successfully
    crecv,      \* number of datagrams recvfrom returned to the requester
    response,   \* the datagram received
    fields,     \* the tuple extract_response_data returned, as a record
    cout,       \* the lines the requester printed
    \* ---- codec harness ----
    kpc,        \* "input" | "encoded" | "toolong" | "decoded"
    kin,        \* the (LangCode, Dt, text) given to the encoder
    kpacket,    \* the bytes fill_packet_fields produced
    klog,       \* the lines printed while encoding and sending
    kafter,     \* where the loop over the ready sockets goes afterwards
    kout        \* what extract_response_data returned for them

svars == <<argv, spc, sexit, ports, sockets, sockState, queue, pending, ready,
           readLog, outbox, slog, events>>
cvars == <<cargv, cpc, cexit, creqtype, cport, csock, csent, crecv, response, fields, cout>>
kvars == <<kpc, kin, kpacket, klog, kafter, kout>>
vars  == <<svars, cvars, kvars>>

-----------------------------------------------------------------------------
(* Python building blocks *)

Min(a, b) == IF a < b THEN a ELSE b

\* s[lo:hi] with 0 <= lo <= hi: a slice never raises, it is clipped to the sequence
PySlice(s, lo, hi) ==
    IF lo >= Min(hi, Len(s)) THEN <<>> ELSE SubSeq(s, lo + 1, Min(hi, Len(s)))

\* int.from_bytes(b, "big")
RECURSIVE from_bytes(_)
from_bytes(b) ==
    IF b = <<>> THEN 0
    ELSE 256 * from_bytes(SubSeq(b, 1, Len(b) - 1)) + b[Len(b)]

\* n.to_bytes(2, "big"), for 0 <= n < 65536
to_bytes2(n) == << n \div 256, n % 256 >>

\* str.encode("utf-8") of one code point
EncodeCodePoint(c) ==
    IF c < 128 THEN << c >>
    ELSE IF c < 2048 THEN << 192 + (c \div 64), 128 + (c % 64) >>
    ELSE IF c < 65536 THEN
        << 224 + (c \div 4096), 128 + ((c \div 64) % 64), 128 + (c % 64) >>
    ELSE << 240 + (c \div 262144), 128 + ((c \div 4096) % 64),
            128 + ((c \div 64) % 64), 128 + (c % 64) >>

\* The encodings of the code points of a text, concatenated.  A function, so
\* that its argument is a value when it is applied; the text is halved at each
\* step to keep the evaluation shallow.
Utf8Bytes[text \in Seq(Nat)] ==
    IF text = <<>> THEN <<>>
    ELSE IF Len(text) = 1 THEN EncodeCodePoint(text[1])
    ELSE LET h == Len(text) \div 2 IN
         Utf8Bytes[SubSeq(text, 1, h)] \o Utf8Bytes[SubSeq(text, h + 1, Len(text))]

\* str.encode("utf-8")
utf8_encode(text) == Utf8Bytes[text]

IsCont(b, i) == i <= Len(b) /\ b[i] >= 128 /\ b[i] <= 191

\* Number of bytes of the well-formed UTF-8 sequence that starts at b[i]
\* (1-based), 0 when there is none: the strict decoder of bytes.decode("utf-8")
\* (no overlong forms, no surrogates, nothing above U+10FFFF).
SeqLenAt(b, i) ==
    LET b0 == b[i] IN
    IF b0 < 128 THEN 1
    ELSE IF b0 >= 194 /\ b0 <= 223 THEN (IF IsCont(b, i + 1) THEN 2 ELSE 0)
    ELSE IF b0 >= 224 /\ b0 <= 239 THEN
        (IF /\ IsCont(b, i + 1) /\ IsCont(b, i + 2)
            /\ (b0 = 224 => b[i + 1] >= 160)
            /\ (b0 = 237 => b[i + 1] <= 159) THEN 3 ELSE 0)
    ELSE IF b0 >= 240 /\ b0 <= 244 THEN
        (IF /\ IsCont(b, i + 1) /\ IsCont(b, i + 2) /\ IsCont(b, i + 3)
            /\ (b0 = 240 => b[i + 1] >= 144)
            /\ (b0 = 244 => b[i + 1] <= 143) THEN 4 ELSE 0)
    ELSE 0

CodePointAt(b, i, n) ==
    IF n = 1 THEN b[i]
    ELSE IF n = 2 THEN (b[i] - 192) * 64 + (b[i + 1] - 128)
    ELSE IF n = 3 THEN (b[i] - 224) * 4096 + (b[i + 1] - 128) * 64 + (b[i + 2] - 128)
    ELSE (b[i] - 240) * 262144 + (b[i + 1] - 128) * 4096
         + (b[i + 2] - 128) * 64 + (b[i + 3] - 128)

NotCont(b, k) == b[k] < 128 \/ b[k] > 191

\* The decoder run over b, character by character: the code points, with -1
\* at the place where the bytes stop being UTF-8.  A long run is cut in two at
\* a byte that starts a character (one of the four bytes up to the middle is
\* such a byte, or the bytes are not UTF-8: no character has more than three
\* continuation bytes).
Utf8Points[b \in Seq(Nat)] ==
    IF b = <<>> THEN <<>>
    ELSE IF Len(b) < 16 THEN
        LET n == SeqLenAt(b, 1) IN
        IF n = 0 THEN << -1 >>
        ELSE << CodePointAt(b, 1, n) >> \o Utf8Points[SubSeq(b, n + 1, Len(b))]
    ELSE LET mid  == Len(b) \div 2 + 1
             cuts == { k \in (mid - 3)..mid : NotCont(b, k) }
         IN
         IF cuts = {} THEN << -1 >>
         ELSE LET m == CHOOSE k \in cuts : \A x \in cuts : x <= k IN
              Utf8Points[SubSeq(b, 1, m - 1)] \o Utf8Points[SubSeq(b, m, Len(b))]

\* bytes.decode("utf-8"): [ok |-> FALSE] is UnicodeDecodeError
utf8_decode(b) ==
    LET t == Utf8Points[b] IN
    IF \E k \in 1..Len(t) : t[k] = -1
    THEN [ok |-> FALSE, text |-> <<>>]
    ELSE [ok |-> TRUE, text |-> t]

\* str(n) for n >= 0, as code points
RECURSIVE DecStr(_)
DecStr(n) ==
    IF n < 10 THEN << 48 + n >> ELSE DecStr(n \div 10) \o << 48 + (n % 10) >>

\* f"{n:02}"
Pad2(n) == IF n < 10 THEN << 48 >> \o DecStr(n) ELSE DecStr(n)

IsDigit(c) == c \in {"0", "1", "2", "3", "4", "5", "6", "7", "8", "9"}

DigitVal(c) ==
    CASE c = "0" -> 0 [] c = "1" -> 1 [] c = "2" -> 2 [] c = "3" -> 3
      [] c = "4" -> 4 [] c = "5" -> 5 [] c = "6" -> 6 [] c = "7" -> 7
      [] c = "8" -> 8 [] c = "9" -> 9

RECURSIVE DigitsVal(_)
DigitsVal(s) ==
    IF s = <<>> THEN 0
    ELSE 10 * DigitsVal(SubSeq(s, 1, Len(s) - 1)) + DigitVal(s[Len(s)])

\* int(arg): an optional sign and decimal digits; anything else is ValueError
IntOk(s) ==
    LET d == IF s # <<>> /\ s[1] \in {"-", "+"} THEN Tail(s) ELSE s IN
    d # <<>> /\ \A i \in 1..Len(d) : IsDigit(d[i])

IntVal(s) ==
    IF s[1] = "-" THEN 0 - DigitsVal(Tail(s))
    ELSE IF s[1] = "+" THEN DigitsVal(Tail(s))
    ELSE DigitsVal(s)

-----------------------------------------------------------------------------
(* server.py: protocol constants and pure functions *)

MAGIC_NO == 14075      \* 0x36FB
DT_REQUEST == 1
DT_RESPONSE == 2

MONTHS_English ==
    << <<74, 97, 110, 117, 97, 114, 121>>,
       <<70, 101, 98, 114, 117, 97, 114, 121>>,
       <<77, 97, 114, 99, 104>>,
       <<65, 112, 114, 105, 108>>,
       <<77, 97, 121>>,
       <<74, 117, 110, 101>>,
       <<74, 117, 108, 121>>,
       <<65, 117, 103, 117, 115, 116>>,
       <<83, 101, 112, 116, 101, 109, 98, 101, 114>>,
       <<79, 99, 116, 111, 98, 101, 114>>,
       <<78, 111, 118, 101, 109, 98, 101, 114>>,
       <<68, 101, 99, 101, 109, 98, 101, 114>> >>

MONTHS_Maori ==
    << <<75, 111, 104, 105, 45, 116, 257, 116, 101, 97>>,
       <<72, 117, 105, 45, 116, 97, 110, 103, 117, 114, 117>>,
       <<80, 111, 117, 116, 363, 45, 116, 101, 45, 114, 97, 110, 103, 105>>,
       <<80, 97, 101, 110, 103, 97, 45, 119, 104, 257, 119, 104, 257>>,
       <<72, 97, 114, 97, 116, 117, 97>>,
       <<80, 105, 112, 105, 114, 105>>,
       <<72, 333, 110, 103, 105, 110, 103, 111, 105>>,
       <<72, 101, 114, 101, 45, 116, 117, 114, 105, 45, 107, 333, 107, 257>>,
       <<77, 97, 104, 117, 114, 117>>,
       <<87, 104, 105, 114, 105, 110, 103, 97, 45, 257, 45, 110, 117, 107, 117>>,
       <<87, 104, 105, 114, 105, 110, 103, 97, 45, 257, 45, 114, 97, 110, 103, 105>>,
       <<72, 97, 107, 105, 104, 101, 97>> >>

MONTHS_German ==
    << <<74, 97, 110, 117, 97, 114>>,
       <<70, 101, 98, 114, 117, 97, 114>>,
       <<77, 228, 114, 122>>,
       <<65, 112, 114, 105, 108>>,
       <<77, 97, 105>>,
       <<74, 117, 110, 105>>,
       <<74, 117, 108, 105>>,
       <<65, 117, 103, 117, 115, 116>>,
       <<83, 101, 112, 116, 101, 109, 98, 101, 114>>,
       <<79, 107, 116, 111, 98, 101, 114>>,
       <<78, 111, 118, 101, 109, 98, 101, 114>>,
       <<68, 101, 122, 101, 109, 98, 101, 114>> >>

\* MONTHS[lang]; the keys are written without the macron
MONTHS(lang) ==
    CASE lang = "English" -> MONTHS_English
      [] lang = "Maori"   -> MONTHS_Maori
      [] lang = "German"  -> MONTHS_German

\* LANGUAGE_CODES[code]
LANGUAGE_CODES(code) ==
    CASE code = 1 -> "English"
      [] code = 2 -> "Maori"
      [] code = 3 -> "German"

\* The sentence openings of format_date and format_time, as code points
EN_DATE == <<84, 111, 100, 97, 121, 39, 115, 32, 100, 97, 116, 101, 32, 105, 115, 32>>
MI_DATE == <<75, 111, 32, 116, 101, 32, 114, 257, 32, 111, 32, 116, 275, 110, 101,
             105, 32, 114, 257, 32, 107, 111, 32>>
DE_DATE == <<72, 101, 117, 116, 101, 32, 105, 115, 116, 32, 100, 101, 114, 32>>
EN_TIME == <<84, 104, 101, 32, 99, 117, 114, 114, 101, 110, 116, 32, 116, 105, 109,
             101, 32, 105, 115, 32>>
MI_TIME == <<75, 111, 32, 116, 101, 32, 119, 257, 32, 111, 32, 116, 275, 110, 101,
             105, 32, 119, 257, 32>>
DE_TIME == <<68, 105, 101, 32, 85, 104, 114, 122, 101, 105, 116, 32, 105, 115, 116, 32>>

\* format_date(dt, lang): 32 is " ", 44 is ",", 46 is "."
format_date(dt, lang) ==
    IF lang = "English" THEN
        EN_DATE \o MONTHS(lang)[dt.month] \o <<32>> \o DecStr(dt.day)
                \o <<44, 32>> \o DecStr(dt.year)
    ELSE IF lang = "Maori" THEN
        MI_DATE \o MONTHS(lang)[dt.month] \o <<32>> \o DecStr(dt.day)
                \o <<44, 32>> \o DecStr(dt.year)
    ELSE
        DE_DATE \o DecStr(dt.day) \o <<46, 32>> \o MONTHS(lang)[dt.month]
                \o <<32>> \o DecStr(dt.year)

\* format_time(dt, lang): 58 is ":"
format_time(dt, lang) ==
    IF lang = "English" THEN EN_TIME \o Pad2(dt.hour) \o <<58>> \o Pad2(dt.minute)
    ELSE IF lang = "Maori" THEN MI_TIME \o Pad2(dt.hour) \o <<58>> \o Pad2(dt.minute)
    ELSE DE_TIME \o Pad2(dt.hour) \o <<58>> \o Pad2(dt.minute)

\* validate_field without its RequestType check
validate_field_NoRequestType(MagicNo, PacketType, RequestType) ==
    IF MagicNo # MAGIC_NO
    THEN "ERROR: Packet magic number is incorrect, dropping packet"
    ELSE IF PacketType # DT_REQUEST
    THEN "ERROR: Packet is not a DT_Request, dropping packet"
    ELSE ""

\* validate_field testing the packet type before the magic number
validate_field_TypeFirst(MagicNo, PacketType, RequestType) ==
    IF PacketType # DT_REQUEST
    THEN "ERROR: Packet is not a DT_Request, dropping packet"
    ELSE IF MagicNo # MAGIC_NO
    THEN "ERROR: Packet magic number is incorrect, dropping packet"
    ELSE IF RequestType \notin {1, 2}
    THEN "ERROR: Packet has invalid type, dropping packet"
    ELSE ""

\* validate_field: "" when the three fields pass, else the line it prints
validate_field(MagicNo, PacketType, RequestType) ==
    IF MagicNo # MAGIC_NO
    THEN "ERROR: Packet magic number is incorrect, dropping packet"
    ELSE IF PacketType # DT_REQUEST
    THEN "ERROR: Packet is not a DT_Request, dropping packet"
    ELSE IF RequestType \notin {1, 2}
    THEN "ERROR: Packet has invalid type, dropping packet"
    ELSE ""

\* fill_packet_fields writing the year with "little" instead of "big"
fill_packet_fields_LittleYear(LangCode, Dt, TextByte) ==
    to_bytes2(MAGIC_NO) \o to_bytes2(DT_RESPONSE) \o to_bytes2(LangCode)
    \o << Dt.year % 256, Dt.year \div 256 >>
    \o << Dt.month, Dt.day, Dt.hour, Dt.minute, Len(TextByte) >>
    \o TextByte

\* fill_packet_fields storing the length of the whole packet at offset 12
fill_packet_fields_TotalLength(LangCode, Dt, TextByte) ==
    to_bytes2(MAGIC_NO) \o to_bytes2(DT_RESPONSE) \o to_bytes2(LangCode)
    \o to_bytes2(Dt.year)
    \o << Dt.month, Dt.day, Dt.hour, Dt.minute, 13 + Len(TextByte) >>
    \o TextByte

\* fill_packet_fields: the bytearray after the assignments
fill_packet_fields(LangCode, Dt, TextByte) ==
    to_bytes2(MAGIC_NO) \o to_bytes2(DT_RESPONSE) \o to_bytes2(LangCode)
    \o to_bytes2(Dt.year) \o << Dt.month, Dt.day, Dt.hour, Dt.minute, Len(TextByte) >>
    \o TextByte

\* The line handle_request prints for an accepted request
ReceivedLine(lang, request_type) ==
    IF request_type = 1
    THEN (CASE lang = "English" -> "English received date request"
            [] lang = "Maori"   -> "Maori received date request"
            [] lang = "German"  -> "German received date request")
    ELSE (CASE lang = "English" -> "English received time request"
            [] lang = "Maori"   -> "Maori received time request"
            [] lang = "German"  -> "German received time request")

\* The length limit of handle_request's text check
MAX_TEXT_LEN == 255

\* The end of handle_request without the length check: the Length byte holds
\* the length modulo 256
encode_and_send_NoLimit(text, addr, sock, lang_code, dt, sendOk) ==
    LET text_bytes == utf8_encode(text)
        resp       == to_bytes2(MAGIC_NO) \o to_bytes2(DT_RESPONSE)
                      \o to_bytes2(lang_code) \o to_bytes2(dt.year)
                      \o << dt.month, dt.day, dt.hour, dt.minute,
                            Len(text_bytes) % 256 >>
                      \o text_bytes
    IN
    IF sendOk THEN
        [log  |-> << "Response sent" >>,
         sent |-> << [sock |-> sock, to |-> addr, data |-> resp] >>,
         outcome |-> "sent"]
    ELSE
        [log  |-> << "ERROR: Sending failed, dropping packet" >>,
         sent |-> <<>>, outcome |-> "sendfail"]

\* The end of handle_request, from `text_bytes = text.encode("utf-8")` on: the
\* length check, the bytearray and sendto, for the text formatted before
encode_and_send(text, addr, sock, lang_code, dt, sendOk) ==
    LET text_bytes == utf8_encode(text)
        resp       == fill_packet_fields(lang_code, dt, text_bytes)
    IN
    IF Len(text_bytes) > MAX_TEXT_LEN THEN
        [log  |-> << "ERROR: Text too long, dropping packet" >>,
         sent |-> <<>>, outcome |-> "toolong"]
    ELSE IF sendOk THEN
        [log  |-> << "Response sent" >>,
         sent |-> << [sock |-> sock, to |-> addr, data |-> resp] >>,
         outcome |-> "sent"]
    ELSE
        [log  |-> << "ERROR: Sending failed, dropping packet" >>,
         sent |-> <<>>, outcome |-> "sendfail"]

\* handle_request(data, addr, sock, lang_code) with the clock reading dt and
\* sendOk telling whether sock.sendto returns or raises:
\* the lines printed, the datagrams sent (none or one) and the outcome.
handle_request(data, addr, sock, lang_code, dt, sendOk) ==
    LET magic_no     == from_bytes(PySlice(data, 0, 2))
        packet_type  == from_bytes(PySlice(data, 2, 4))
        request_type == from_bytes(PySlice(data, 4, 6))
        verdict      == validate_field(magic_no, packet_type, request_type)
        lang         == LANGUAGE_CODES(lang_code)
        text         == IF request_type = 1 THEN format_date(dt, lang)
                                            ELSE format_time(dt, lang)
        r            == encode_and_send(text, addr, sock, lang_code, dt, sendOk)
    IN
    IF Len(data) # 6 THEN
        [log  |-> << "ERROR: Packet length incorrect for a DT_Request, dropping packet" >>,
         sent |-> <<>>, outcome |-> "dropped"]
    ELSE IF verdict # "" THEN
        [log |-> << verdict >>, sent |-> <<>>, outcome |-> "dropped"]
    ELSE
        [log  |-> << ReceivedLine(lang, request_type) >> \o r.log,
         sent |-> r.sent, outcome |-> r.outcome]

-----------------------------------------------------------------------------
(* server.py: start-up *)

\* The languages main() binds, in order; socket i is the i-th socket created
Languages == << "English", "Maori", "German" >>
SockIds   == 1..Len(Languages)

PORT_MIN == 1024
\* The upper limit of the port range one too high
PORT_MAX_OneMore == 64000 + 1

PORT_MAX == 64000

\* The index (1-based) of the first argument int() refuses, 0 when there is none
RECURSIVE FirstBadArg(_, _)
FirstBadArg(args, i) ==
    IF i > Len(args) THEN 0
    ELSE IF ~IntOk(args[i]) THEN i
    ELSE FirstBadArg(args, i + 1)

\* One copy of `line` for every port of the loop that is flagged bad
RECURSIVE LinesFor(_, _)
LinesFor(bad, line) ==
    IF bad = <<>> THEN <<>>
    ELSE (IF Head(bad) THEN << line >> ELSE <<>>)
         \o LinesFor(Tail(bad), line)

NotPositive(p) == p <= 0
InRange_AnyPort(p) == 0 < p /\ p <= 65535
InRange(p)     == PORT_MIN <= p /\ p <= PORT_MAX
OutOfRange(p)  == ~InRange(p)

\* get_valid_portnum() on sys.argv[1:] = args: `exit` is its sys.exit(1),
\* ports = <<>> is its return of None, otherwise ports is the list returned
get_valid_portnum(args) ==
    LET PortNums == [i \in 1..Len(args) |-> IntVal(args[i])] IN
    IF Len(args) # 3 THEN
        [exit |-> TRUE, ports |-> <<>>,
         log |-> << "ERROR: Incorrect number of command line arguments" >>]
    ELSE IF FirstBadArg(args, 1) # 0 THEN
        [exit |-> FALSE, ports |-> <<>>,
         log |-> << "ERROR: Given port is not a positive integer" >>]
    ELSE IF Cardinality({PortNums[i] : i \in 1..3}) # 3 THEN
        [exit |-> FALSE, ports |-> <<>>, log |-> << "ERROR: Duplicate ports given" >>]
    ELSE IF \E i \in 1..3 : PortNums[i] <= 0 THEN
        [exit |-> FALSE, ports |-> <<>>,
         log |-> LinesFor([i \in 1..3 |-> NotPositive(PortNums[i])],
                          "ERROR: Given port is not a positive integer")]
    ELSE IF ~(\A i \in 1..3 : InRange(PortNums[i])) THEN
        [exit |-> FALSE, ports |-> <<>>,
         log |-> LinesFor([i \in 1..3 |-> OutOfRange(PortNums[i])],
                          "ERROR: Given port is not in the range [1024, 64000]")]
    ELSE [exit |-> FALSE, ports |-> PortNums, log |-> <<>>]

\* main(): ports = get_valid_portnum(); if not ports: sys.exit(1)
Start ==
    /\ spc = "start"
    /\ LET r == get_valid_portnum(argv) IN
       /\ slog' = slog \o r.log
       /\ ports' = r.ports
       /\ IF r.exit \/ r.ports = <<>>
          THEN spc' = "exited" /\ sexit' = 1
          ELSE spc' = "bind" /\ sexit' = sexit
    /\ UNCHANGED <<argv, sockets, sockState, queue, pending, ready, readLog,
                   outbox, events>>
    /\ UNCHANGED <<cvars, kvars>>

\* The closing loop stopping one socket short
CloseAll_ButLast(state, socks) ==
    [s \in SockIds |-> IF \E i \in 1..(Len(socks) - 1) : socks[i] = s
                       THEN "closed" ELSE state[s]]

\* The sockets of `sockets`, closed
CloseAll(state, socks) ==
    [s \in SockIds |-> IF \E i \in 1..Len(socks) : socks[i] = s
                       THEN "closed" ELSE state[s]]

\* What the operating system may answer to socket() and bind()
BindOutcomes == { "ok", "nocreate", "nobind" }

\* One iteration of main()'s binding loop: bind_socket(ports[i], lang) and the
\* handling of its result
BindSocket ==
    /\ spc = "bind"
    /\ Len(sockets) < Len(Languages)
    /\ LET s == Len(sockets) + 1 IN
       \E res \in BindOutcomes :
          IF res = "ok" THEN
             /\ slog' = Append(slog, "Binding")
             /\ sockState' = [sockState EXCEPT ![s] = "open"]
             /\ sockets' = Append(sockets, s)
             /\ spc' = IF Len(sockets') = Len(Languages) THEN "loop" ELSE "bind"
             /\ sexit' = sexit
          ELSE
             /\ slog' = slog \o << "Binding",
                                   IF res = "nocreate"
                                   THEN "ERROR: Socket creation failed"
                                   ELSE "ERROR: Socket binding failed" >>
             /\ sockState' = CloseAll(IF res = "nobind"
                                      THEN [sockState EXCEPT ![s] = "closed"]
                                      ELSE sockState, sockets)
             /\ sockets' = sockets
             /\ spc' = "exited"
             /\ sexit' = 1
    /\ UNCHANGED <<argv, ports, queue, pending, ready, readLog, outbox,
                   events>>
    /\ UNCHANGED <<cvars, kvars>>

-----------------------------------------------------------------------------
(* server.py: the service loop and its environment *)

MaxEvents == 2     \* datagrams and disturbances the transport delivers in one run

\* Readings of datetime.datetime.now()
Clock ==
    { [year |-> 2024, month |-> 1,  day |-> 5,  hour |-> 9,  minute |-> 7],
      [year |-> 2099, month |-> 12, day |-> 31, hour |-> 23, minute |-> 59],
      [year |-> 2100, month |-> 6,  day |-> 15, hour |-> 12, minute |-> 30] }

\* The two DT-Requests and datagrams wrong in one respect each
REQ_DATE     == << 54, 251, 0, 1, 0, 1 >>
REQ_TIME     == << 54, 251, 0, 1, 0, 2 >>
BAD_MAGIC    == << 251, 54, 0, 1, 0, 1 >>      \* magic number byte-swapped
BAD_TYPE     == << 54, 251, 0, 2, 0, 1 >>      \* a DT-Response packet type
BAD_REQ3     == << 54, 251, 0, 1, 0, 3 >>      \* request type 3
BAD_REQ257   == << 54, 251, 0, 1, 1, 1 >>      \* request type 0x0101
SHORT5       == << 54, 251, 0, 1, 0 >>         \* 5 bytes
LONG7        == << 54, 251, 0, 1, 0, 1, 0 >>   \* 7 bytes
\* Datagrams wrong in more than one respect
BAD_ALL      == << 0, 0, 0, 0, 0, 0 >>         \* magic, packet type, request type
BAD_TYPE_REQ == << 54, 251, 0, 2, 0, 3 >>      \* packet type and request type
LONG7_MAGIC  == << 251, 54, 0, 1, 0, 1, 0 >>   \* 7 bytes and magic number

\* What the environment sends: every socket gets both requests and three of
\* the wrong datagrams, from either peer
Deliveries ==
    { << 1, REQ_DATE, "A" >>, << 1, REQ_TIME, "B" >>,
      << 1, SHORT5, "A" >>,   << 1, BAD_MAGIC, "B" >>,
      << 2, REQ_TIME, "A" >>, << 2, REQ_DATE, "B" >>,
      << 2, LONG7, "B" >>,    << 2, BAD_TYPE, "A" >>,
      << 3, REQ_DATE, "B" >>, << 3, REQ_TIME, "A" >>,
      << 3, BAD_REQ3, "A" >>, << 3, BAD_REQ257, "B" >>,
      << 1, BAD_ALL, "B" >>,  << 2, BAD_TYPE_REQ, "A" >>,
      << 3, LONG7_MAGIC, "B" >> }

\* A datagram reaches an open socket of the responder
Arrive ==
    /\ events < MaxEvents
    /\ \E m \in Deliveries :
          /\ sockState[m[1]] = "open"
          /\ queue' = [queue EXCEPT ![m[1]] =
                          Append(@, [data |-> m[2], addr |-> m[3], id |-> events + 1])]
    /\ events' = events + 1
    /\ UNCHANGED <<argv, spc, sexit, ports, sockets, sockState, pending, ready,
                   readLog, outbox, slog>>
    /\ UNCHANGED <<cvars, kvars>>

\* The transport makes a socket readable without a deliverable datagram: a
\* datagram that fails its checksum ("corrupt", discarded by the next read) or
\* a queued socket error ("error", raised by the next read)
Disturb ==
    /\ events < MaxEvents
    /\ \E s \in SockIds, k \in { "corrupt", "error" } :
          /\ sockState[s] = "open"
          /\ pending[s] = "none"
          /\ pending' = [pending EXCEPT ![s] = k]
    /\ events' = events + 1
    /\ UNCHANGED <<argv, spc, sexit, ports, sockets, sockState, queue, ready,
                   readLog, outbox, slog>>
    /\ UNCHANGED <<cvars, kvars>>

Readable(s) == queue[s] # <<>> \/ pending[s] # "none"

\* The first list select.select returns: the readable sockets, in list order
RECURSIVE ReadyOf(_)
ReadyOf(socks) ==
    IF socks = <<>> THEN <<>>
    ELSE (IF Readable(Head(socks)) THEN << Head(socks) >> ELSE <<>>)
         \o ReadyOf(Tail(socks))

\* Top of `while True`: print, then block in select
Wait ==
    /\ spc = "loop"
    /\ slog' = Append(slog, "Waiting for requests...")
    /\ spc' = "select"
    /\ UNCHANGED <<argv, sexit, ports, sockets, sockState, queue, pending, ready,
                   readLog, outbox, events>>
    /\ UNCHANGED <<cvars, kvars>>

\* select.select(sockets, [], []) returns once a socket is readable
Select ==
    /\ spc = "select"
    /\ ReadyOf(sockets) # <<>>
    /\ ready' = ReadyOf(sockets)
    /\ spc' = "service"
    /\ UNCHANGED <<argv, sexit, ports, sockets, sockState, queue, pending,
                   readLog, outbox, slog, events>>
    /\ UNCHANGED <<cvars, kvars>>

\* The dispatch chain with the second and third branch exchanged
LangCodeOf_Swapped(sock, socks) ==
    IF sock = socks[1] THEN 1
    ELSE IF sock = socks[2] THEN 3
    ELSE IF sock = socks[3] THEN 2
    ELSE 0

\* The chain `if sock == sockets[0] ... elif sock == sockets[1] ...` of main():
\* the language code handed to handle_request, 0 for the final `else: break`
LangCodeOf(sock, socks) ==
    IF sock = socks[1] THEN 1
    ELSE IF sock = socks[2] THEN 2
    ELSE IF sock = socks[3] THEN 3
    ELSE 0

\* The for loop left after its first socket, as by a `break`
AfterService_FirstOnly(rest, outcome) == "loop"

\* The for loop with a dropped datagram ending the process
AfterService_StopOnDrop(rest, outcome) ==
    IF outcome = "dropped" THEN "exited"
    ELSE IF rest = <<>> THEN "loop" ELSE "service"

\* Where the for loop over ready_socks goes after one socket: every branch of
\* the try statement continues with the next ready socket, and the while loop
\* starts over when there is none
AfterService(rest, outcome) == IF rest = <<>> THEN "loop" ELSE "service"

\* What recvfrom does on sock: raise a queued error, return the oldest
\* datagram, or time out when nothing deliverable arrives within a second
RecvResult(sock) ==
    IF pending[sock] = "error" THEN "error"
    ELSE IF queue[sock] = <<>> THEN "timeout"
    ELSE "data"

\* The iteration with recvfrom returning the newest datagram of the socket
ServeDatagram_Newest ==
    /\ spc = "service"
    /\ ready # <<>>
    /\ LET sock == Head(ready)
           m    == queue[sock][Len(queue[sock])]
           code == LangCodeOf(sock, sockets)
       IN
       /\ RecvResult(sock) = "data"
       /\ queue' = [queue EXCEPT ![sock] = SubSeq(@, 1, Len(@) - 1)]
       /\ pending' = [pending EXCEPT ![sock] = "none"]
       /\ \E dt \in Clock, sendOk \in BOOLEAN :
             LET r == handle_request(m.data, m.addr, sock, code, dt, sendOk) IN
             /\ slog' = slog \o r.log
             /\ readLog' = Append(readLog, [sock |-> sock, data |-> m.data,
                                            addr |-> m.addr, id |-> m.id,
                                            outcome |-> r.outcome])
             /\ outbox' = outbox \o
                    [i \in 1..Len(r.sent) |->
                        [sock |-> r.sent[i].sock, to |-> r.sent[i].to,
                         data |-> r.sent[i].data, inReplyTo |-> m.id]]
             /\ spc' = AfterService(Tail(ready), r.outcome)
       /\ ready' = Tail(ready)
    /\ UNCHANGED <<argv, sexit, ports, sockets, sockState, events>>
    /\ UNCHANGED <<cvars, kvars>>

\* One iteration of `for sock in ready_socks` in which recvfrom returns a
\* datagram: dispatch on the socket, handle_request, next socket
ServeDatagram ==
    /\ spc = "service"
    /\ ready # <<>>
    /\ LET sock == Head(ready)
           m    == Head(queue[sock])
           code == LangCodeOf(sock, sockets)
       IN
       /\ RecvResult(sock) = "data"
       /\ queue' = [queue EXCEPT ![sock] = Tail(@)]
       /\ pending' = [pending EXCEPT ![sock] = "none"]
       /\ \E dt \in Clock, sendOk \in BOOLEAN :
             LET r == handle_request(m.data, m.addr, sock, code, dt, sendOk) IN
             /\ slog' = slog \o r.log
             /\ readLog' = Append(readLog, [sock |-> sock, data |-> m.data,
                                            addr |-> m.addr, id |-> m.id,
                                            outcome |-> r.outcome])
             /\ outbox' = outbox \o
                    [i \in 1..Len(r.sent) |->
                        [sock |-> r.sent[i].sock, to |-> r.sent[i].to,
                         data |-> r.sent[i].data, inReplyTo |-> m.id]]
             /\ spc' = AfterService(Tail(ready), r.outcome)
       /\ ready' = Tail(ready)
    /\ UNCHANGED <<argv, sexit, ports, sockets, sockState, events>>
    /\ UNCHANGED <<cvars, kvars>>

\* recvfrom raises socket.timeout: the readiness was a corrupt datagram only
RecvTimeout ==
    /\ spc = "service"
    /\ ready # <<>>
    /\ RecvResult(Head(ready)) = "timeout"
    /\ pending' = [pending EXCEPT ![Head(ready)] = "none"]
    /\ slog' = Append(slog, "ERROR: Receiving timed out, dropping packet")
    /\ ready' = Tail(ready)
    /\ spc' = AfterService(Tail(ready), "timeout")
    /\ UNCHANGED <<argv, sexit, ports, sockets, sockState, queue, readLog,
                   outbox, events>>
    /\ UNCHANGED <<cvars, kvars>>

\* recvfrom raises another exception: the queued socket error
RecvError ==
    /\ spc = "service"
    /\ ready # <<>>
    /\ RecvResult(Head(ready)) = "error"
    /\ pending' = [pending EXCEPT ![Head(ready)] = "none"]
    /\ slog' = Append(slog, "ERROR: Receiving failed, dropping packet")
    /\ ready' = Tail(ready)
    /\ spc' = AfterService(Tail(ready), "error")
    /\ UNCHANGED <<argv, sexit, ports, sockets, sockState, queue, readLog,
                   outbox, events>>
    /\ UNCHANGED <<cvars, kvars>>

\* KeyboardInterrupt outside the inner try statement: `except Exception` does
\* not catch it, the finally clause closes the sockets and exits with 1
Interrupt ==
    /\ spc \in { "loop", "select", "service" }
    /\ sockState' = CloseAll(sockState, sockets)
    /\ spc' = "exited"
    /\ sexit' = 1
    /\ UNCHANGED <<argv, ports, sockets, queue, pending, ready, readLog, outbox,
                   slog, events>>
    /\ UNCHANGED <<cvars, kvars>>

-----------------------------------------------------------------------------
(* client.py: pure functions *)

CLIENT_MAGIC_NO == 14075     \* 0x36FB
PACKET_TYPE == 1
CLIENT_DT_RESPONSE == 2

\* The request with its fields written low byte first
BuildRequest_LittleEndian(rt) ==
    << CLIENT_MAGIC_NO % 256, CLIENT_MAGIC_NO \div 256 >>
    \o << PACKET_TYPE % 256, PACKET_TYPE \div 256 >> \o << rt % 256, rt \div 256 >>

\* The bytearray send_request builds
BuildRequest(rt) ==
    to_bytes2(CLIENT_MAGIC_NO) \o to_bytes2(PACKET_TYPE) \o to_bytes2(rt)

\* extract_response_data with a text slice that raises IndexError when the
\* datagram holds fewer text bytes than its Length byte declares
extract_response_data_StrictSlice(resp) ==
    LET text_length == resp[13]
        decoded     == utf8_decode(PySlice(resp, 13, 13 + text_length))
        none        == [magic_no |-> 0, packet_type |-> 0, lang_code |-> 0,
                        text |-> <<>>, text_length |-> 0, day |-> 0, month |-> 0,
                        year |-> 0, hour |-> 0, minute |-> 0]
    IN
    IF \E i \in 8..12 : i >= Len(resp) THEN
        [err |-> "ERROR: Packet is too small to be a DT_Response", f |-> none]
    ELSE IF 13 + text_length > Len(resp) THEN
        [err |-> "ERROR: Packet is too small to be a DT_Response", f |-> none]
    ELSE IF ~decoded.ok THEN
        [err |-> "ERROR: Packet has invalid text", f |-> none]
    ELSE
        [err |-> "",
         f |-> [magic_no    |-> from_bytes(PySlice(resp, 0, 2)),
                packet_type |-> from_bytes(PySlice(resp, 2, 4)),
                lang_code   |-> from_bytes(PySlice(resp, 4, 6)),
                text        |-> decoded.text,
                text_length |-> text_length,
                day         |-> resp[10],
                month       |-> resp[9],
                year        |-> from_bytes(PySlice(resp, 6, 8)),
                hour        |-> resp[11],
                minute      |-> resp[12]]]

\* extract_response_data(response): err is "" and the fields are set, or err is
\* the line printed before sys.exit(1).  response[8] .. response[12] raise
\* IndexError on a short datagram; the slices do not.
extract_response_data(resp) ==
    LET text_length == resp[13]     \* response[12]
        decoded     == utf8_decode(PySlice(resp, 13, 13 + text_length))
        none        == [magic_no |-> 0, packet_type |-> 0, lang_code |-> 0,
                        text |-> <<>>, text_length |-> 0, day |-> 0, month |-> 0,
                        year |-> 0, hour |-> 0, minute |-> 0]
    IN
    IF \E i \in 8..12 : i >= Len(resp) THEN
        [err |-> "ERROR: Packet is too small to be a DT_Response", f |-> none]
    ELSE IF ~decoded.ok THEN
        [err |-> "ERROR: Packet has invalid text", f |-> none]
    ELSE
        [err |-> "",
         f |-> [magic_no    |-> from_bytes(PySlice(resp, 0, 2)),
                packet_type |-> from_bytes(PySlice(resp, 2, 4)),
                lang_code   |-> from_bytes(PySlice(resp, 4, 6)),
                text        |-> decoded.text,
                text_length |-> text_length,
                day         |-> resp[10],
                month       |-> resp[9],
                year        |-> from_bytes(PySlice(resp, 6, 8)),
                hour        |-> resp[11],
                minute      |-> resp[12]]]

MIN_RESPONSE_LEN == 13

\* validate_response_packet_1 without its last check
validate_response_packet_1_NoLength(resp, magic_no, packet_type, lang_code, text_length) ==
    IF Len(resp) < 13
    THEN "ERROR: Packet is too small to be a DT_Response"
    ELSE IF magic_no # 14075
    THEN "ERROR: Packet magic number is incorrect"
    ELSE IF packet_type # 2
    THEN "ERROR: Packet is not a DT_Response"
    ELSE IF lang_code \notin {1, 2, 3}
    THEN "ERROR: Packet has invalid language"
    ELSE ""

\* validate_response_packet_1 testing the language code first
validate_response_packet_1_LangFirst(resp, magic_no, packet_type, lang_code, text_length) ==
    IF Len(resp) < 13
    THEN "ERROR: Packet is too small to be a DT_Response"
    ELSE IF lang_code \notin {1, 2, 3}
    THEN "ERROR: Packet has invalid language"
    ELSE IF magic_no # 14075
    THEN "ERROR: Packet magic number is incorrect"
    ELSE IF packet_type # 2
    THEN "ERROR: Packet is not a DT_Response"
    ELSE IF Len(resp) # 13 + text_length
    THEN "ERROR: Packet text length is incorrect"
    ELSE ""

\* validate_response_packet_1: "" for True, else the line printed before exit
validate_response_packet_1(resp, magic_no, packet_type, lang_code, text_length) ==
    IF Len(resp) < MIN_RESPONSE_LEN
    THEN "ERROR: Packet is too small to be a DT_Response"
    ELSE IF magic_no # CLIENT_MAGIC_NO
    THEN "ERROR: Packet magic number is incorrect"
    ELSE IF packet_type # CLIENT_DT_RESPONSE
    THEN "ERROR: Packet is not a DT_Response"
    ELSE IF lang_code \notin {1, 2, 3}
    THEN "ERROR: Packet has invalid language"
    ELSE IF Len(resp) # MIN_RESPONSE_LEN + text_length
    THEN "ERROR: Packet text length is incorrect"
    ELSE ""

YEAR_LIMIT == 2100

\* validate_response_packet_2 with `year > 2100` and `hour <= 24`
validate_response_packet_2_OffByOne(day, month, year, hour, minute) ==
    IF year > 2100 THEN "ERROR: Packet has invalid year"
    ELSE IF ~(1 <= month /\ month <= 12) THEN "ERROR: Packet has invalid month"
    ELSE IF ~(1 <= day /\ day <= 31) THEN "ERROR: Packet has invalid day"
    ELSE IF ~(0 <= hour /\ hour <= 24) THEN "ERROR: Packet has invalid hour"
    ELSE IF ~(0 <= minute /\ minute <= 59) THEN "ERROR: Packet has invalid minute"
    ELSE ""

\* validate_response_packet_2: "" for True, else the line printed before exit
validate_response_packet_2(day, month, year, hour, minute) ==
    IF year >= YEAR_LIMIT THEN "ERROR: Packet has invalid year"
    ELSE IF ~(1 <= month /\ month <= 12) THEN "ERROR: Packet has invalid month"
    ELSE IF ~(1 <= day /\ day <= 31) THEN "ERROR: Packet has invalid day"
    ELSE IF ~(0 <= hour /\ hour <= 23) THEN "ERROR: Packet has invalid hour"
    ELSE IF ~(0 <= minute /\ minute <= 59) THEN "ERROR: Packet has invalid minute"
    ELSE ""

\* The four lines of print_response, as one record
print_response(lang_code, text, day, month, year, hour, minute) ==
    [line |-> "response received",
     lang |-> (CASE lang_code = 1 -> "English"
                 [] lang_code = 2 -> "Maori"
                 [] lang_code = 3 -> "German"),
     text |-> text, day |-> day, month |-> month, year |-> year,
     hour |-> hour, minute |-> minute]

\* A plain printed line
Line(s) == [line |-> s]

-----------------------------------------------------------------------------
(* client.py: main() step by step *)

\* The requester exits with `status` after printing `line`; closeIt tells
\* whether the path calls sock.close() first
ClientExit(line, status, closeIt) ==
    /\ cout' = IF line = "" THEN cout ELSE Append(cout, Line(line))
    /\ cpc' = "exited"
    /\ cexit' = status
    /\ csock' = IF closeIt THEN "closed" ELSE csock

\* Number of entries socket.getaddrinfo returns for a host, 0 when it raises
GetAddrInfo(host) ==
    CASE host = "localhost" -> 3
      [] host = "onehost"   -> 1
      [] OTHER              -> 0

\* validate_and_get_request_type()
ValidateAndGetRequestType ==
    /\ cpc = "start"
    /\ IF Len(cargv) # 3 THEN
          /\ ClientExit("ERROR: Incorrect number of command line arguments", 1, FALSE)
          /\ creqtype' = creqtype
       ELSE IF cargv[1] = "date" THEN
          /\ creqtype' = 1
          /\ cpc' = "port"
          /\ UNCHANGED <<cout, cexit, csock>>
       ELSE IF cargv[1] = "time" THEN
          /\ creqtype' = 2
          /\ cpc' = "port"
          /\ UNCHANGED <<cout, cexit, csock>>
       ELSE
          /\ ClientExit("ERROR: Request type is not valid", 1, FALSE)
          /\ creqtype' = creqtype
    /\ UNCHANGED <<cargv, cport, csent, crecv, response, fields>>
    /\ UNCHANGED <<svars, kvars>>

\* validate_and_get_port()
ValidateAndGetPort ==
    /\ cpc = "port"
    /\ IF GetAddrInfo(cargv[2]) = 0 THEN
          /\ ClientExit("ERROR: Hostname resolution failed", 1, FALSE)
          /\ cport' = cport
       ELSE IF ~IntOk(cargv[3]) THEN
          /\ ClientExit("ERROR: Given port is not a positive integer", 1, FALSE)
          /\ cport' = cport
       ELSE IF IntVal(cargv[3]) <= 0 THEN
          /\ ClientExit("ERROR: Given port is not a positive integer", 1, FALSE)
          /\ cport' = cport
       ELSE IF ~(PORT_MIN <= IntVal(cargv[3]) /\ IntVal(cargv[3]) <= PORT_MAX) THEN
          /\ ClientExit("ERROR: Given port is not in the range [1024, 64000]", 1, FALSE)
          /\ cport' = cport
       ELSE
          /\ cport' = IntVal(cargv[3])
          /\ cpc' = "create"
          /\ UNCHANGED <<cout, cexit, csock>>
    /\ UNCHANGED <<cargv, creqtype, csent, crecv, response, fields>>
    /\ UNCHANGED <<svars, kvars>>

\* create_socket_and_connect(): socket(), settimeout, getaddrinfo(...)[1][4],
\* connect; any exception prints and exits without closing the socket
CreateSocketAndConnect ==
    /\ cpc = "create"
    /\ \E sockOk \in BOOLEAN, connOk \in BOOLEAN :
          IF ~sockOk THEN
             /\ cout' = Append(cout, Line("ERROR: Socket creation failed"))
             /\ cpc' = "exited"
             /\ cexit' = 1
             /\ csock' = csock
          ELSE IF GetAddrInfo(cargv[2]) < 2 \/ ~connOk THEN
             /\ cout' = Append(cout, Line("ERROR: Socket creation failed"))
             /\ cpc' = "exited"
             /\ cexit' = 1
             /\ csock' = "open"
          ELSE
             /\ csock' = "open"
             /\ cpc' = "send"
             /\ UNCHANGED <<cout, cexit>>
    /\ UNCHANGED <<cargv, creqtype, cport, csent, crecv, response, fields>>
    /\ UNCHANGED <<svars, kvars>>

\* send_request calling sendto twice
SendRequest_Twice ==
    /\ cpc = "send"
    /\ \E ok \in BOOLEAN :
          IF ok THEN
             /\ csent' = csent \o << to_bytes2(14075) \o << 0, 1, 0, creqtype >>,
                                     to_bytes2(14075) \o << 0, 1, 0, creqtype >> >>
             /\ cout' = Append(cout, [line |-> "request sent"])
             /\ cpc' = "recv"
             /\ UNCHANGED <<cexit, csock>>
          ELSE
             /\ cout' = Append(cout, [line |-> "ERROR: Sending failed"])
             /\ cpc' = "exited"
             /\ cexit' = 1
             /\ csock' = "closed"
             /\ csent' = csent
    /\ UNCHANGED <<cargv, creqtype, cport, crecv, response, fields>>
    /\ UNCHANGED <<svars, kvars>>

\* send_request(sock, addr, request_type, port)
SendRequest ==
    /\ cpc = "send"
    /\ \E ok \in BOOLEAN :
          IF ok THEN
             /\ csent' = Append(csent, BuildRequest(creqtype))
             /\ cout' = Append(cout, Line("request sent"))
             /\ cpc' = "recv"
             /\ UNCHANGED <<cexit, csock>>
          ELSE
             /\ ClientExit("ERROR: Sending failed", 1, TRUE)
             /\ csent' = csent
    /\ UNCHANGED <<cargv, creqtype, cport, crecv, response, fields>>
    /\ UNCHANGED <<svars, kvars>>

\* Datagrams the environment may hand to the requester.  A datagram is laid
\* out field by field from a record; the records are BaseReply changed in at
\* most MaxDeviations fields, so that every check meets every other check.
MaxDeviations == 2

BaseReply ==
    [magic |-> 14075, ptype |-> 2, lang |-> 1, year |-> 2024, month |-> 1,
     day |-> 5, hour |-> 9, minute |-> 7,
     body |-> [len |-> 2, tail |-> << 196, 129 >>]]

ReplyBodies ==
    { [len |-> 2, tail |-> << 196, 129 >>],       \* one two-byte character
      [len |-> 0, tail |-> <<>>],                 \* empty text
      [len |-> 2, tail |-> << 104 >>],            \* one byte missing
      [len |-> 2, tail |-> << 196 >>],            \* cut inside a character
      [len |-> 1, tail |-> << 104, 105 >>],       \* one byte too many
      [len |-> 1, tail |-> << 255 >>],            \* not UTF-8
      [len |-> 1, tail |-> << 104, 255 >>],       \* too long, bad byte past Length
      [len |-> 2, tail |-> << 255, 104, 105 >>] } \* too long, bad byte in the text

ReplyRecords ==
    [magic : {14075, 14074, 64310}, ptype : {2, 1, 258}, lang : {1, 2, 3, 0, 4, 257},
     year : {2024, 0, 2099, 2100, 65535}, month : {1, 0, 12, 13},
     day : {5, 0, 1, 31, 32}, hour : {9, 0, 23, 24}, minute : {7, 0, 59, 60},
     body : ReplyBodies]

ReplyFieldNames ==
    { "magic", "ptype", "lang", "year", "month", "day", "hour", "minute", "body" }

Deviations(r) == Cardinality({ f \in ReplyFieldNames : r[f] # BaseReply[f] })

RawResponse(r) ==
    to_bytes2(r.magic) \o to_bytes2(r.ptype) \o to_bytes2(r.lang) \o to_bytes2(r.year)
    \o << r.month, r.day, r.hour, r.minute, r.body.len >> \o r.body.tail

ResponseSet ==
    { RawResponse(r) : r \in { x \in ReplyRecords : Deviations(x) <= MaxDeviations } }
    \cup { SubSeq(RawResponse(BaseReply), 1, n) : n \in 0..12 }

\* sock.recvfrom(1024) returns a datagram
RecvResponse ==
    /\ cpc = "recv"
    /\ \E d \in ResponseSet :
          /\ response' = d
          /\ crecv' = crecv + 1
          /\ cpc' = "extract"
    /\ UNCHANGED <<cargv, cexit, creqtype, cport, csock, csent, fields, cout>>
    /\ UNCHANGED <<svars, kvars>>

\* A timeout handler that sends the request again, once, and waits again
ClientRecvTimeout_Retry ==
    /\ cpc = "recv"
    /\ cout' = Append(cout, [line |-> "ERROR: Receiving timed out"])
    /\ IF Len(csent) < 2
       THEN /\ csent' = Append(csent, csent[1])
            /\ UNCHANGED <<cpc, cexit, csock>>
       ELSE /\ cpc' = "exited"
            /\ cexit' = 1
            /\ csock' = "closed"
            /\ csent' = csent
    /\ UNCHANGED <<cargv, creqtype, cport, crecv, response, fields>>
    /\ UNCHANGED <<svars, kvars>>

\* sock.recvfrom(1024) raises socket.timeout after the 1.0 s set on the socket
ClientRecvTimeout ==
    /\ cpc = "recv"
    /\ ClientExit("ERROR: Receiving timed out", 1, TRUE)
    /\ UNCHANGED <<cargv, creqtype, cport, csent, crecv, response, fields>>
    /\ UNCHANGED <<svars, kvars>>

\* sock.recvfrom(1024) raises another exception
ClientRecvError ==
    /\ cpc = "recv"
    /\ ClientExit("ERROR: Receiving failed", 1, TRUE)
    /\ UNCHANGED <<cargv, creqtype, cport, csent, crecv, response, fields>>
    /\ UNCHANGED <<svars, kvars>>

\* process_response: the call of extract_response_data
ExtractResponseData ==
    /\ cpc = "extract"
    /\ LET r == extract_response_data(response) IN
       IF r.err # "" THEN
          /\ ClientExit(r.err, 1, TRUE)
          /\ fields' = fields
       ELSE
          /\ fields' = r.f
          /\ cpc' = "validate1"
          /\ UNCHANGED <<cout, cexit, csock>>
    /\ UNCHANGED <<cargv, creqtype, cport, csent, crecv, response>>
    /\ UNCHANGED <<svars, kvars>>

\* process_response: the call of validate_response_packet_1
ValidateResponsePacket1 ==
    /\ cpc = "validate1"
    /\ LET e == validate_response_packet_1(response, fields.magic_no,
                    fields.packet_type, fields.lang_code, fields.text_length) IN
       IF e # "" THEN ClientExit(e, 1, TRUE)
       ELSE /\ cpc' = "validate2"
            /\ UNCHANGED <<cout, cexit, csock>>
    /\ UNCHANGED <<cargv, creqtype, cport, csent, crecv, response, fields>>
    /\ UNCHANGED <<svars, kvars>>

\* process_response: the call of validate_response_packet_2
ValidateResponsePacket2 ==
    /\ cpc = "validate2"
    /\ LET e == validate_response_packet_2(fields.day, fields.month, fields.year,
                                           fields.hour, fields.minute) IN
       IF e # "" THEN ClientExit(e, 1, TRUE)
       ELSE /\ cpc' = "print"
            /\ UNCHANGED <<cout, cexit, csock>>
    /\ UNCHANGED <<cargv, creqtype, cport, csent, crecv, response, fields>>
    /\ UNCHANGED <<svars, kvars>>

\* process_response: print_response, sock.close(), and the script ends
PrintResponse ==
    /\ cpc = "print"
    /\ cout' = Append(cout, print_response(fields.lang_code, fields.text, fields.day,
                        fields.month, fields.year, fields.hour, fields.minute))
    /\ csock' = "closed"
    /\ cpc' = "exited"
    /\ cexit' = 0
    /\ UNCHANGED <<cargv, creqtype, cport, csent, crecv, response, fields>>
    /\ UNCHANGED <<svars, kvars>>

-----------------------------------------------------------------------------
(* The response codec on its own: fill_packet_fields, then extract_response_data *)

MaxTextChars == 2     \* length of the short texts given to the encoder

\* Code points at the edges of the one- to four-byte encodings
CodePoints == { 65, 127, 128, 2047, 2048, 65535, 65536, 1114111 }

Repeat(c, n) == [i \in 1..n |-> c]

ShortTexts == UNION { [1..n -> CodePoints] : n \in 0..MaxTextChars }

\* Texts of 254 to 256 UTF-8 bytes, and one of 255 bytes ending in a
\* two-byte character
LongTexts ==
    { Repeat(97, n) : n \in 254..256 } \cup { Repeat(97, 253) \o << 257 >> }

CodecTexts == ShortTexts \cup LongTexts

CodecDates ==
    [year : {1, 255, 256, 2024, 9999}, month : {1, 12}, day : {1, 31},
     hour : {0, 23}, minute : {0, 59}]

\* The responder's encoding step for a text on the socket of language
\* kin.lang: text.encode, the length check, the bytearray, a sendto that
\* returns, and the return to the loop over the ready sockets
Encode ==
    /\ kpc = "input"
    /\ LET r == encode_and_send(kin.text, "A", kin.lang, kin.lang, kin.dt, TRUE) IN
       /\ kpc' = IF r.outcome = "sent" THEN "encoded" ELSE r.outcome
       /\ kpacket' = IF r.sent = <<>> THEN kpacket ELSE r.sent[1].data
       /\ klog' = r.log
       /\ kafter' = AfterService(<<>>, r.outcome)
    /\ UNCHANGED <<kin, kout>>
    /\ UNCHANGED <<svars, cvars>>

\* The requester's decoding step
Decode ==
    /\ kpc = "encoded"
    /\ kout' = extract_response_data(kpacket)
    /\ kpc' = "decoded"
    /\ UNCHANGED <<kin, kpacket, klog, kafter>>
    /\ UNCHANGED <<svars, cvars>>

-----------------------------------------------------------------------------
(* Initial states and specifications *)

\* Command-line arguments, character by character
A_30001  == << "3", "0", "0", "0", "1" >>
A_30002  == << "3", "0", "0", "0", "2" >>
A_30003  == << "3", "0", "0", "0", "3" >>
A_1024   == << "1", "0", "2", "4" >>
A_01024  == << "0", "1", "0", "2", "4" >>
A_p1024  == << "+", "1", "0", "2", "4" >>
A_1023   == << "1", "0", "2", "3" >>
A_64000  == << "6", "4", "0", "0", "0" >>
A_64001  == << "6", "4", "0", "0", "1" >>
A_80     == << "8", "0" >>
A_0      == << "0" >>
A_m5     == << "-", "5" >>
A_x      == << "x" >>
A_empty  == << >>

PortArgs == { A_30001, A_1024, A_01024, A_p1024, A_1023, A_64000, A_64001,
              A_80, A_0, A_m5, A_x, A_empty }

\* Argument lists for the start-up of the responder
StartupArgv ==
    (PortArgs \X PortArgs \X PortArgs)
    \cup { << >>, << A_30001 >>, << A_30001, A_30002 >>,
           << A_30001, A_30002, A_30003, A_1024 >> }

\* Argument lists for whole runs of the responder
ServerArgv ==
    { << A_30001, A_30002, A_30003 >>, << A_30001, A_30001, A_30003 >>,
      << A_30001, A_30002 >> }

ServerInit(args) ==
    /\ argv \in args
    /\ spc = "start"
    /\ sexit = -1
    /\ ports = <<>>
    /\ sockets = <<>>
    /\ sockState = [s \in SockIds |-> "none"]
    /\ queue = [s \in SockIds |-> <<>>]
    /\ pending = [s \in SockIds |-> "none"]
    /\ ready = <<>>
    /\ readLog = <<>>
    /\ outbox = <<>>
    /\ slog = <<>>
    /\ events = 0

\* The responder is not part of the run
ServerOff ==
    /\ argv = <<>>
    /\ spc = "off"
    /\ sexit = -1
    /\ ports = <<>>
    /\ sockets = <<>>
    /\ sockState = [s \in SockIds |-> "none"]
    /\ queue = [s \in SockIds |-> <<>>]
    /\ pending = [s \in SockIds |-> "none"]
    /\ ready = <<>>
    /\ readLog = <<>>
    /\ outbox = <<>>
    /\ slog = <<>>
    /\ events = 0

\* Argument lists of the requester: kind, host, port
ClientArgv ==
    ({ "date", "time", "day" } \X { "localhost", "onehost", "nohost" }
        \X { A_30001, A_1024, A_64000, A_1023, A_64001, A_0, A_m5, A_x, A_empty })
    \cup { << >>, << "date" >>, << "date", "localhost" >>,
           << "time", "localhost", A_30001, A_30002 >> }

ClientInit ==
    /\ cargv \in ClientArgv
    /\ cpc = "start"
    /\ cexit = -1
    /\ creqtype = 0
    /\ cport = 0
    /\ csock = "none"
    /\ csent = <<>>
    /\ crecv = 0
    /\ response = <<>>
    /\ fields = [magic_no |-> 0, packet_type |-> 0, lang_code |-> 0,
                 text |-> <<>>, text_length |-> 0, day |-> 0, month |-> 0,
                 year |-> 0, hour |-> 0, minute |-> 0]
    /\ cout = <<>>

\* The requester is not part of the run
ClientOff ==
    /\ cargv = <<>>
    /\ cpc = "off"
    /\ cexit = -1
    /\ creqtype = 0
    /\ cport = 0
    /\ csock = "none"
    /\ csent = <<>>
    /\ crecv = 0
    /\ response = <<>>
    /\ fields = [magic_no |-> 0, packet_type |-> 0, lang_code |-> 0,
                 text |-> <<>>, text_length |-> 0, day |-> 0, month |-> 0,
                 year |-> 0, hour |-> 0, minute |-> 0]
    /\ cout = <<>>

NoCodecOutput ==
    [err |-> "", f |-> [magic_no |-> 0, packet_type |-> 0, lang_code |-> 0,
                        text |-> <<>>, text_length |-> 0, day |-> 0, month |-> 0,
                        year |-> 0, hour |-> 0, minute |-> 0]]

CodecInit ==
    /\ kin \in [lang : {1, 2, 3}, dt : CodecDates, text : CodecTexts]
    /\ kpc = "input"
    /\ kpacket = <<>>
    /\ klog = <<>>
    /\ kafter = "service"
    /\ kout = NoCodecOutput

\* The codec harness is not part of the run
CodecOff ==
    /\ kin = [lang |-> 1, dt |-> [year |-> 1, month |-> 1, day |-> 1,
                                  hour |-> 0, minute |-> 0], text |-> <<>>]
    /\ kpc = "off"
    /\ kpacket = <<>>
    /\ klog = <<>>
    /\ kafter = "service"
    /\ kout = NoCodecOutput

\* The responder, from its command line to its exit
Init == ServerInit(ServerArgv) /\ ClientOff /\ CodecOff

Next ==
    \/ Start
    \/ BindSocket
    \/ Arrive
    \/ Disturb
    \/ Wait
    \/ Select
    \/ ServeDatagram
    \/ RecvTimeout
    \/ RecvError
    \/ Interrupt

Spec == Init /\ [][Next]_vars

\* The loop is scheduled: no step of main() that can be taken is put off forever
FairSpec ==
    /\ Spec
    /\ WF_vars(Wait)
    /\ WF_vars(Select)
    /\ WF_vars(ServeDatagram)
    /\ WF_vars(RecvTimeout)
    /\ WF_vars(RecvError)

\* The start-up of the responder on many command lines
InitStartup == ServerInit(StartupArgv) /\ ClientOff /\ CodecOff

NextStartup ==
    \/ Start
    \/ BindSocket

SpecStartup == InitStartup /\ [][NextStartup]_vars

\* One run of the requester
InitClient == ServerOff /\ ClientInit /\ CodecOff

NextClient ==
    \/ ValidateAndGetRequestType
    \/ ValidateAndGetPort
    \/ CreateSocketAndConnect
    \/ SendRequest
    \/ RecvResponse
    \/ ClientRecvTimeout
    \/ ClientRecvError
    \/ ExtractResponseData
    \/ ValidateResponsePacket1
    \/ ValidateResponsePacket2
    \/ PrintResponse

SpecClient == InitClient /\ [][NextClient]_vars

\* The requester is a running process: it takes its next step
FairSpecClient == SpecClient /\ WF_vars(NextClient)

\* The codec on its own
InitCodec == ServerOff /\ ClientOff /\ CodecInit

NextCodec ==
    \/ Encode
    \/ Decode

SpecCodec == InitCodec /\ [][NextCodec]_vars

\* One requester and the responder on one machine: the responder listens on
\* three ports and the requester is started for one of them
ExchangeServerArgv == { << A_30001, A_1024, A_64000 >> }

ExchangeClientArgv ==
    { "date", "time" } \X { "localhost" } \X { A_30001, A_1024, A_64000 }

\* The transport hands the requester's datagram to the responder's socket
\* bound to the port the requester connected to; the requester is peer "C"
DeliverRequest ==
    /\ Len(csent) = 1
    /\ events = 0
    /\ \E i \in 1..Len(sockets) :
          /\ ports[i] = cport
          /\ sockState[sockets[i]] = "open"
          /\ queue' = [queue EXCEPT ![sockets[i]] =
                          Append(@, [data |-> csent[1], addr |-> "C", id |-> 1])]
    /\ events' = 1
    /\ UNCHANGED <<argv, spc, sexit, ports, sockets, sockState, pending, ready,
                   readLog, outbox, slog>>
    /\ UNCHANGED <<cvars, kvars>>

\* sock.recvfrom(1024) of the requester returns the datagram the responder
\* sent to it
ReceiveResponse ==
    /\ cpc = "recv"
    /\ \E i \in 1..Len(outbox) :
          /\ outbox[i].to = "C"
          /\ response' = outbox[i].data
    /\ crecv' = crecv + 1
    /\ cpc' = "extract"
    /\ UNCHANGED <<cargv, cexit, creqtype, cport, csock, csent, fields, cout>>
    /\ UNCHANGED <<svars, kvars>>

InitExchange ==
    /\ ServerInit(ExchangeServerArgv)
    /\ ClientInit
    /\ cargv \in ExchangeClientArgv
    /\ CodecOff

NextExchange ==
    \/ Start
    \/ BindSocket
    \/ Wait
    \/ Select
    \/ ServeDatagram
    \/ ValidateAndGetRequestType
    \/ ValidateAndGetPort
    \/ CreateSocketAndConnect
    \/ SendRequest
    \/ DeliverRequest
    \/ ReceiveResponse
    \/ ClientRecvTimeout
    \/ ExtractResponseData
    \/ ValidateResponsePacket1
    \/ ValidateResponsePacket2
    \/ PrintResponse

SpecExchange == InitExchange /\ [][NextExchange]_vars

\* Both processes are scheduled: the responder's loop and the requester's
\* processing of a received response take their next step
FairSpecExchange ==
    /\ SpecExchange
    /\ WF_vars(Wait)
    /\ WF_vars(Select)
    /\ WF_vars(ServeDatagram)
    /\ WF_vars(ExtractResponseData)
    /\ WF_vars(ValidateResponsePacket1)
    /\ WF_vars(ValidateResponsePacket2)
    /\ WF_vars(PrintResponse)

-----------------------------------------------------------------------------
(* Properties of the responder *)

\* A datagram is a valid DT-Request, read off its bytes
IsValidRequest(d) ==
    /\ Len(d) = 6
    /\ d[1] = 54 /\ d[2] = 251
    /\ d[3] = 0 /\ d[4] = 1
    /\ d[5] = 0 /\ d[6] \in {1, 2}

\* The lines the responder prints when it drops a datagram as malformed
DropLines ==
    { "ERROR: Packet length incorrect for a DT_Request, dropping packet",
      "ERROR: Packet magic number is incorrect, dropping packet",
      "ERROR: Packet is not a DT_Request, dropping packet",
      "ERROR: Packet has invalid type, dropping packet" }

RepliesTo(id) == { i \in 1..Len(outbox) : outbox[i].inReplyTo = id }

InvalidReads == { j \in 1..Len(readLog) : ~IsValidRequest(readLog[j].data) }
ValidReads   == { j \in 1..Len(readLog) : IsValidRequest(readLog[j].data) }

\* C1: the responder never replies to a datagram that is not a valid
\* DT-Request: every datagram sent answers a valid request that was read, and
\* every invalid datagram read was dropped with no datagram sent and one drop
\* line logged.
C1_NoReplyToInvalid ==
    /\ \A i \in 1..Len(outbox) :
          \E j \in ValidReads : readLog[j].id = outbox[i].inReplyTo
    /\ \A j \in InvalidReads :
          readLog[j].outcome = "dropped" /\ RepliesTo(readLog[j].id) = {}
    /\ Cardinality({ k \in 1..Len(slog) : slog[k] \in DropLines })
          = Cardinality(InvalidReads)

\* An invalid datagram was read and dropped, and a valid one was answered
C1_Witness ==
    /\ InvalidReads # {}
    /\ Len(outbox) = 1

\* C2: each valid request read gets at most one response, sent to the
\* request's address from the socket it arrived on, with PacketType 2 and the
\* LangCode of that socket (socket i, bound to the i-th port, has code i); the
\* list of sockets, once bound, keeps that association; and there are never
\* more responses than valid requests read.
C2_OneResponsePerRequest ==
    /\ \A i \in 1..Len(outbox) :
          \E j \in ValidReads :
             /\ readLog[j].id = outbox[i].inReplyTo
             /\ outbox[i].to = readLog[j].addr
             /\ outbox[i].sock = readLog[j].sock
             /\ SubSeq(outbox[i].data, 3, 4) = << 0, 2 >>
             /\ SubSeq(outbox[i].data, 5, 6) = << 0, readLog[j].sock >>
    /\ \A i, k \in 1..Len(outbox) :
          outbox[i].inReplyTo = outbox[k].inReplyTo => i = k
    /\ Len(outbox) <= Cardinality(ValidReads)
    /\ spc \in { "loop", "select", "service" } => sockets = << 1, 2, 3 >>

\* Responses were sent from the second and from the third socket
C2_Witness ==
    /\ \E i \in 1..Len(outbox) : outbox[i].sock = 2
    /\ \E i \in 1..Len(outbox) : outbox[i].sock = 3

\* Request number n, a valid DT-Request, waits in the queue of socket s
ValidPending(n, s) ==
    \E k \in 1..Len(queue[s]) :
       queue[s][k].id = n /\ IsValidRequest(queue[s][k].data)

\* A malformed datagram was read from socket s and dropped
DroppedOn(s) ==
    \E j \in 1..Len(readLog) : readLog[j].sock = s /\ readLog[j].outcome = "dropped"

Answered(n) == RepliesTo(n) # {}

SendFailed(n) ==
    \E j \in 1..Len(readLog) : readLog[j].id = n /\ readLog[j].outcome = "sendfail"

\* C3: a malformed datagram does not end the loop: the step that reads any
\* datagram leaves main() in its loop; and a valid request waiting on a socket
\* on which a malformed datagram was dropped is eventually answered, unless
\* its sendto fails or the process is interrupted from outside.
C3_LoopSurvivesMalformed ==
    /\ [][readLog' # readLog => spc' \in { "loop", "service" }]_vars
    /\ \A s \in SockIds : \A n \in 1..(MaxEvents + 1) :
          (DroppedOn(s) /\ ValidPending(n, s))
             ~> (Answered(n) \/ SendFailed(n) \/ spc = "exited")

\* On one socket a malformed datagram was dropped and a valid request that
\* was read after it has its response
C3_Witness ==
    \E j, k \in 1..Len(readLog) :
       /\ j < k
       /\ readLog[j].sock = readLog[k].sock
       /\ readLog[j].outcome = "dropped"
       /\ Len(readLog[j].data) \in {5, 7}
       /\ IsValidRequest(readLog[k].data)
       /\ Answered(readLog[k].id)
       /\ spc # "exited"

-----------------------------------------------------------------------------
(* Properties of the codec *)

\* C4: round trip: what extract_response_data reads from the bytes that
\* fill_packet_fields wrote is the language code, year, month, day, hour,
\* minute and text that were encoded, for every text of at most 255 bytes.
C4_ResponseRoundTrip ==
    kpc = "decoded" =>
       /\ kout.err = ""
       /\ kout.f.lang_code = kin.lang
       /\ kout.f.year = kin.dt.year
       /\ kout.f.month = kin.dt.month
       /\ kout.f.day = kin.dt.day
       /\ kout.f.hour = kin.dt.hour
       /\ kout.f.minute = kin.dt.minute
       /\ kout.f.text = kin.text

\* A text of exactly 255 bytes that ends in a two-byte character made the trip
C4_Witness ==
    /\ kpc = "decoded"
    /\ Len(kpacket) = 13 + 255
    /\ kin.text[Len(kin.text)] = 257
    /\ kin.dt.year = 9999

-----------------------------------------------------------------------------
(* Properties of the requester *)

HasLine(l) == \E i \in 1..Len(cout) : cout[i].line = l

LastLine == cout[Len(cout)].line

\* The DT-Request for a request kind, byte by byte
RequestFor(kind) == << 54, 251, 0, 1, 0, IF kind = "date" THEN 1 ELSE 2 >>

\* C5: on every path the requester hands at most one datagram to sendto and
\* takes at most one from recvfrom; once sendto has returned, exactly one
\* DT-Request has been sent, and nothing is received without it.
C5_OneSendOneReceive ==
    /\ Len(csent) <= 1
    /\ crecv <= 1
    /\ (HasLine("request sent") <=> Len(csent) = 1)
    /\ (cpc \in { "recv", "extract", "validate1", "validate2", "print" }
           => Len(csent) = 1)
    /\ (crecv = 1 => Len(csent) = 1)
    /\ (Len(csent) = 1 => csent[1] = RequestFor(cargv[1]))

\* The requester ended after one send and one receive
C5_Witness ==
    /\ cpc = "exited"
    /\ Len(csent) = 1
    /\ crecv = 1

\* C6: a receive timeout is terminal: the timeout is reported, the requester
\* has exited with status 1 without a second send or any receive, the one
\* DT-Request sent has RequestType 1 for date and 2 for time, nothing changes
\* after the exit, and every run of the requester ends.
C6_TimeoutIsTerminal ==
    /\ [](HasLine("ERROR: Receiving timed out") =>
            /\ cpc = "exited"
            /\ cexit = 1
            /\ crecv = 0
            /\ csent = << RequestFor(cargv[1]) >>)
    /\ [][cpc = "exited" => cvars' = cvars]_vars
    /\ <>(cpc = "exited")

\* A time request timed out
C6_Witness ==
    /\ HasLine("ERROR: Receiving timed out")
    /\ cargv[1] = "time"
    /\ csent = << << 54, 251, 0, 1, 0, 2 >> >>
    /\ cexit = 1

\* The fields of a response of at least 13 bytes, read off its bytes
RawMagic(r)  == 256 * r[1] + r[2]
RawType(r)   == 256 * r[3] + r[4]
RawLang(r)   == 256 * r[5] + r[6]
RawYear(r)   == 256 * r[7] + r[8]
RawLength(r) == r[13]

StructOK(r) ==
    /\ Len(r) >= 13
    /\ RawMagic(r) = 14075
    /\ RawType(r) = 2
    /\ RawLang(r) \in {1, 2, 3}
    /\ Len(r) = 13 + RawLength(r)
    /\ utf8_decode(SubSeq(r, 14, Len(r))).ok

SemOK(r) ==
    /\ RawYear(r) < 2100
    /\ 1 <= r[9] /\ r[9] <= 12
    /\ 1 <= r[10] /\ r[10] <= 31
    /\ 0 <= r[11] /\ r[11] <= 23
    /\ 0 <= r[12] /\ r[12] <= 59

Printed == HasLine("response received")

\* C7: no partial acceptance: the result is printed and the status is 0 only
\* for a received datagram that passes every structural and every semantic
\* check, and then what is printed is what the datagram holds; a received
\* datagram that fails any check ends in status 1 with no result printed.
C7_NoPartialAcceptance ==
    /\ (Printed \/ cexit = 0) =>
          /\ crecv = 1
          /\ StructOK(response) /\ SemOK(response)
          /\ Printed /\ cexit = 0
          /\ LET p == cout[Len(cout)] IN
             /\ p.year = RawYear(response)
             /\ p.month = response[9] /\ p.day = response[10]
             /\ p.hour = response[11] /\ p.minute = response[12]
             /\ utf8_encode(p.text) = SubSeq(response, 14, Len(response))
    /\ (cpc = "exited" /\ crecv = 1 /\ ~(StructOK(response) /\ SemOK(response)))
          => (~Printed /\ cexit = 1)

\* A response was accepted and printed
C7_Witness ==
    /\ Printed
    /\ cexit = 0
    /\ RawLang(response) = 3

\* C8: for a response that passes the structural checks, the requester accepts
\* it exactly when Year < 2100, Month in 1..12, Day in 1..31, Hour in 0..23
\* and Minute in 0..59.
C8_SemanticBounds ==
    (cpc = "exited" /\ crecv = 1 /\ StructOK(response))
       => (cexit = 0 <=> SemOK(response))

\* A response with Year 2099 and Hour 23 was accepted
C8_Witness ==
    /\ cpc = "exited"
    /\ crecv = 1
    /\ cexit = 0
    /\ RawYear(response) = 2099
    /\ response[11] = 23

TOO_SMALL       == "ERROR: Packet is too small to be a DT_Response"
LENGTH_MISMATCH == "ERROR: Packet text length is incorrect"
INVALID_TEXT    == "ERROR: Packet has invalid text"

\* The bytes of the text slice response[13:13 + Length] that are present
TextSlice(r) == SubSeq(r, 14, Min(13 + RawLength(r), Len(r)))

\* C10 as claimed: below 13 bytes TooSmall; fewer bytes after offset 13 than
\* Length declares TooSmall; any other total length than 13 + Length
\* LengthMismatch; a text that is not UTF-8 InvalidText; whatever the other
\* fields hold.
C10_Original ==
    (cpc = "exited" /\ crecv = 1) =>
       /\ Len(response) < 13 => LastLine = TOO_SMALL
       /\ (Len(response) >= 13 /\ Len(response) - 13 < RawLength(response))
             => LastLine = TOO_SMALL
       /\ (Len(response) >= 13 /\ Len(response) - 13 > RawLength(response))
             => LastLine = LENGTH_MISMATCH
       /\ (Len(response) >= 13 /\ Len(response) - 13 = RawLength(response)
              /\ ~utf8_decode(TextSlice(response)).ok)
             => LastLine = INVALID_TEXT

\* C10 (amended): TooSmall is reported for the datagrams shorter than 13 bytes
\* and for no other; a datagram of at least 13 bytes whose text slice, as far
\* as it is present, is not UTF-8 is rejected as InvalidText whatever its other
\* fields hold; otherwise, when MagicNo, PacketType and LangCode are valid and
\* the total length is not 13 + Length (fewer or more text bytes than
\* declared), it is rejected as LengthMismatch.
C10_DecodeErrorClasses ==
    (cpc = "exited" /\ crecv = 1) =>
       /\ (Len(response) < 13 <=> LastLine = TOO_SMALL)
       /\ (Len(response) >= 13 /\ ~utf8_decode(TextSlice(response)).ok)
             => LastLine = INVALID_TEXT
       /\ (/\ Len(response) >= 13
           /\ utf8_decode(TextSlice(response)).ok
           /\ RawMagic(response) = 14075
           /\ RawType(response) = 2
           /\ RawLang(response) \in {1, 2, 3}
           /\ Len(response) # 13 + RawLength(response))
             => LastLine = LENGTH_MISMATCH
       /\ cexit = 1 \/ (StructOK(response) /\ SemOK(response))

\* A datagram with fewer text bytes than declared was rejected as LengthMismatch
C10_Witness ==
    /\ cpc = "exited"
    /\ crecv = 1
    /\ Len(response) >= 13
    /\ Len(response) - 13 < RawLength(response)
    /\ LastLine = LENGTH_MISMATCH

-----------------------------------------------------------------------------
(* Properties of the responder's start-up *)

\* The arguments are three integers, pairwise distinct, each in [1024, 64000]
PortsValid(args) ==
    /\ Len(args) = 3
    /\ \A i \in 1..3 : IntOk(args[i])
    /\ \A i, j \in 1..3 : i # j => IntVal(args[i]) # IntVal(args[j])
    /\ \A i \in 1..3 : 1024 <= IntVal(args[i]) /\ IntVal(args[i]) <= 64000

SocketTouched ==
    \/ \E s \in SockIds : sockState[s] # "none"
    \/ \E k \in 1..Len(slog) : slog[k] = "Binding"
    \/ sockets # <<>>

\* C9: with a duplicate, a non-integer or an out-of-range port, or another
\* number of arguments than three, no socket is created or bound and the
\* process ends with status 1 in its first step.
C9_NoBindOnBadPorts ==
    ~PortsValid(argv) =>
       /\ ~SocketTouched
       /\ spc \in { "start", "exited" }
       /\ spc = "exited" => sexit = 1

\* Start-up was refused for port 80, and with two spellings of one port
C9_Witness ==
    /\ spc = "exited"
    /\ sexit = 1
    /\ ~SocketTouched
    /\ argv = << A_80, A_1024, A_01024 >>

-----------------------------------------------------------------------------
(* Properties of the responder's checks and of its loop *)

\* The drop line of the first check a datagram fails, in the order length,
\* MagicNo, PacketType, RequestType, read off its bytes; "" when it fails none
FirstFailing(d) ==
    IF Len(d) # 6
    THEN "ERROR: Packet length incorrect for a DT_Request, dropping packet"
    ELSE IF 256 * d[1] + d[2] # 14075
    THEN "ERROR: Packet magic number is incorrect, dropping packet"
    ELSE IF 256 * d[3] + d[4] # 1
    THEN "ERROR: Packet is not a DT_Request, dropping packet"
    ELSE IF 256 * d[5] + d[6] \notin {1, 2}
    THEN "ERROR: Packet has invalid type, dropping packet"
    ELSE ""

\* The lines slog gains in a step
NewLines == SubSeq(slog', Len(slog) + 1, Len(slog'))

\* C11: request validation is ordered and short-circuits: the step that reads
\* a datagram failing some check logs the drop line of the first failing check
\* in the order length, MagicNo, PacketType, RequestType, and nothing else,
\* and sends nothing; the step that reads a datagram failing no check logs no
\* drop line.
C11_FirstFailingCheckWins ==
    [][readLog' # readLog =>
         LET e == readLog'[Len(readLog')] IN
         IF FirstFailing(e.data) # ""
         THEN /\ NewLines = << FirstFailing(e.data) >>
              /\ e.outcome = "dropped"
              /\ outbox' = outbox
         ELSE \A k \in 1..Len(NewLines) : NewLines[k] \notin DropLines]_vars

\* Datagrams failing several checks were read: one wrong in all three fields,
\* dropped for its magic number, and one of 7 bytes with a wrong magic number,
\* dropped for its length
C11_Witness ==
    /\ Len(readLog) = 2
    /\ readLog[1].data = BAD_ALL
    /\ readLog[2].data = LONG7_MAGIC
    /\ \E k \in 1..Len(slog) : \E l \in (k + 1)..Len(slog) :
          /\ slog[k] = "ERROR: Packet magic number is incorrect, dropping packet"
          /\ slog[l] = "ERROR: Packet length incorrect for a DT_Request, dropping packet"
    /\ \A k \in 1..Len(slog) :
          slog[k] # "ERROR: Packet is not a DT_Request, dropping packet"
          /\ slog[k] # "ERROR: Packet has invalid type, dropping packet"

-----------------------------------------------------------------------------
(* Properties of the requester's two validation passes *)

\* The error of the first structural check that a response of at least 13
\* bytes fails, in the order MagicNo, PacketType, LangCode, declared length;
\* "" when it fails none
FirstStructural(r) ==
    IF RawMagic(r) # 14075 THEN "ERROR: Packet magic number is incorrect"
    ELSE IF RawType(r) # 2 THEN "ERROR: Packet is not a DT_Response"
    ELSE IF RawLang(r) \notin {1, 2, 3} THEN "ERROR: Packet has invalid language"
    ELSE IF Len(r) # 13 + RawLength(r) THEN LENGTH_MISMATCH
    ELSE ""

SemanticLines ==
    { "ERROR: Packet has invalid year", "ERROR: Packet has invalid month",
      "ERROR: Packet has invalid day", "ERROR: Packet has invalid hour",
      "ERROR: Packet has invalid minute" }

NoSemanticLine == \A k \in 1..Len(cout) : cout[k].line \notin SemanticLines

\* C12 as claimed: every response that fails a structural check (MagicNo,
\* PacketType, LangCode, declared length) is reported with the error of the
\* first of these it fails, and with no semantic error.
C12_Original ==
    (cpc = "exited" /\ crecv = 1 /\ Len(response) >= 13
        /\ FirstStructural(response) # "")
       => (LastLine = FirstStructural(response) /\ NoSemanticLine)

\* C12 (amended): a response of at least 13 bytes whose text slice is valid
\* UTF-8 and that fails a structural check is reported with the error of the
\* first structural check it fails, in the order MagicNo, PacketType,
\* LangCode, declared length; and no response that is too short or fails a
\* structural check is ever reported with a semantic error or printed, also
\* when its date and time fields are out of range.
C12_StructuralBeforeSemantic ==
    (cpc = "exited" /\ crecv = 1) =>
       /\ (/\ Len(response) >= 13
           /\ utf8_decode(TextSlice(response)).ok
           /\ FirstStructural(response) # "")
             => LastLine = FirstStructural(response)
       /\ (Len(response) < 13 \/ FirstStructural(response) # "")
             => (NoSemanticLine /\ ~Printed /\ cexit = 1)

\* A response with a wrong packet type and the year 2100 was rejected for its
\* packet type
C12_Witness ==
    /\ cpc = "exited"
    /\ crecv = 1
    /\ Len(response) >= 13
    /\ RawMagic(response) = 14075
    /\ RawType(response) = 1
    /\ RawYear(response) = 2100
    /\ LastLine = "ERROR: Packet is not a DT_Response"

-----------------------------------------------------------------------------
(* Properties of one wake-up of the responder *)

InReady(s) == \E i \in 1..Len(ready) : ready[i] = s

NoDuplicates(seq) == \A i, j \in 1..Len(seq) : seq[i] = seq[j] => i = j

\* A step of the for loop over ready_socks that is not an interruption
ServiceStep == spc = "service" /\ ready' # ready /\ spc' # "exited"

\* C13: in one wake-up every ready socket is serviced exactly once: select
\* reports every readable socket, once; each step of the for loop makes one
\* recvfrom on the first socket not yet serviced, which reads one datagram
\* from that socket or logs a timeout or a receive error, and, whatever the
\* outcome (timeout, receive error, drop, failed send), goes on to the next
\* ready socket, or to the next wake-up after the last; the wait is reached
\* only with no ready socket left over; and every ready socket is eventually
\* serviced unless the process is interrupted.
C13_EveryReadySocketServiced ==
    /\ [](spc = "service" =>
            /\ ready # <<>>
            /\ NoDuplicates(ready)
            /\ \A i \in 1..Len(ready) : sockState[ready[i]] = "open")
    /\ [](spc \in { "loop", "select" } => ready = <<>>)
    /\ [][(spc = "select" /\ spc' = "service") =>
             \A s \in SockIds : Readable(s) <=> InReady(s)']_vars
    /\ [][ServiceStep =>
             LET s == Head(ready) IN
             /\ ready' = Tail(ready)
             /\ spc' = IF Tail(ready) = <<>> THEN "loop" ELSE "service"
             /\ \A t \in SockIds \ {s} : queue'[t] = queue[t]
             /\ \/ /\ Len(readLog') = Len(readLog) + 1
                   /\ readLog'[Len(readLog')].sock = s
                   /\ readLog'[Len(readLog')].data = Head(queue[s]).data
                   /\ queue'[s] = Tail(queue[s])
                \/ /\ readLog' = readLog
                   /\ queue' = queue
                   /\ NewLines \in
                        { << "ERROR: Receiving timed out, dropping packet" >>,
                          << "ERROR: Receiving failed, dropping packet" >> }]_vars
    /\ \A s \in SockIds :
          (spc = "service" /\ InReady(s)) ~> (~InReady(s) \/ spc = "exited")

\* In the first wake-up two sockets were ready: the send on the first failed
\* and the second was still serviced and got its response
C13_Witness ==
    /\ spc = "loop"
    /\ Cardinality({ k \in 1..Len(slog) : slog[k] = "Waiting for requests..." }) = 1
    /\ Len(readLog) = 2
    /\ readLog[1].sock # readLog[2].sock
    /\ readLog[1].outcome = "sendfail"
    /\ readLog[2].outcome = "sent"

-----------------------------------------------------------------------------
(* Properties of the responder's sockets *)

BindFailed ==
    \E k \in 1..Len(slog) :
       slog[k] \in { "ERROR: Socket creation failed", "ERROR: Socket binding failed" }

LoopEntered == \E k \in 1..Len(slog) : slog[k] = "Waiting for requests..."

\* C14: when the responder has stopped no socket of it is open: after a
\* failed bind the sockets bound before it and the socket that failed to bind
\* are closed, the process has exited with status 1 and the service loop was
\* never entered; the loop runs with all three sockets open, and when it ends
\* all three are closed before the exit.
C14_SocketsClosedAtExit ==
    /\ spc = "exited" => \A s \in SockIds : sockState[s] # "open"
    /\ BindFailed =>
          /\ spc = "exited" /\ sexit = 1
          /\ ~LoopEntered
          /\ \A i \in 1..Len(sockets) : sockState[sockets[i]] = "closed"
    /\ spc \in { "loop", "select", "service" } =>
          \A s \in SockIds : sockState[s] = "open"
    /\ (spc = "exited" /\ LoopEntered) =>
          (sexit = 1 /\ \A s \in SockIds : sockState[s] = "closed")

\* The third bind failed after two sockets were bound: all three are closed
C14_Witness ==
    /\ spc = "exited"
    /\ Len(sockets) = 2
    /\ slog[Len(slog)] = "ERROR: Socket binding failed"
    /\ sockState = << "closed", "closed", "closed" >>

-----------------------------------------------------------------------------
(* Order of service *)

\* C15: datagrams of one socket are read in the order they were delivered
\* (numbered by id), each handled to its end before the next is read: on one
\* socket the reads are in delivery order, everything read was delivered
\* before everything still queued, the responses leave in the order of their
\* requests, and a read datagram has its outcome (dropped, or its response in
\* the outbox) as soon as it is read.
C15_ArrivalOrderPerSocket ==
    /\ \A i, j \in 1..Len(readLog) :
          (i < j /\ readLog[i].sock = readLog[j].sock)
             => readLog[i].id < readLog[j].id
    /\ \A j \in 1..Len(readLog) :
          \A k \in 1..Len(queue[readLog[j].sock]) :
             readLog[j].id < queue[readLog[j].sock][k].id
    /\ \A i, k \in 1..Len(outbox) :
          (i < k /\ outbox[i].sock = outbox[k].sock)
             => outbox[i].inReplyTo < outbox[k].inReplyTo
    /\ \A j \in 1..Len(readLog) :
          (readLog[j].outcome = "sent") <=> (RepliesTo(readLog[j].id) # {})

\* Two requests of one socket were answered, the first delivered first
C15_Witness ==
    /\ Len(readLog) = 2
    /\ readLog[1].sock = readLog[2].sock
    /\ readLog[1].id = 1 /\ readLog[2].id = 2
    /\ readLog[1].data # readLog[2].data
    /\ Len(outbox) = 2
    /\ outbox[1].inReplyTo = 1

-----------------------------------------------------------------------------
(* Shape of the responses *)

\* A well-formed DT-Response: 13 + N bytes with N <= 255 in the Length byte,
\* MagicNo 0x36FB, PacketType 2
WellFormedResponse(d) ==
    /\ Len(d) >= 13
    /\ Len(d) - 13 <= 255
    /\ \A k \in 1..Len(d) : d[k] \in 0..255
    /\ d[13] = Len(d) - 13
    /\ << d[1], d[2] >> = << 54, 251 >>
    /\ << d[3], d[4] >> = << 0, 2 >>

\* C16: every datagram the responder has sent is a well-formed DT-Response:
\* 13 + N bytes with 0 <= N <= 255, the Length byte equal to the number N of
\* text bytes that follow, MagicNo 0x36FB and PacketType 0x0002.
C16_ResponsesWellFormed ==
    \A i \in 1..Len(outbox) : WellFormedResponse(outbox[i].data)

\* Two responses were sent, one of them in Maori, whose text has more bytes
\* than characters
C16_Witness ==
    /\ Len(outbox) = 2
    /\ \E i \in 1..2 :
          /\ outbox[i].sock = 2
          /\ LET t == SubSeq(outbox[i].data, 14, Len(outbox[i].data)) IN
             /\ utf8_decode(t).ok
             /\ Len(utf8_decode(t).text) < outbox[i].data[13]

-----------------------------------------------------------------------------
(* The text-too-long branch of handle_request *)

\* C17: a formatted text whose UTF-8 encoding is longer than 255 bytes is
\* dropped: no datagram is built or sent for it, the drop is logged, and
\* handle_request returns to the loop over the ready sockets, which goes on;
\* a text of at most 255 bytes is not dropped for its length.
C17_TextTooLongDropped ==
    kpc # "input" =>
       IF Len(utf8_encode(kin.text)) > 255
       THEN /\ kpc = "toolong"
            /\ kpacket = <<>>
            /\ klog = << "ERROR: Text too long, dropping packet" >>
            /\ kafter \in { "loop", "service" }
       ELSE kpc \in { "encoded", "decoded" } /\ kpacket # <<>>

\* A text of 256 bytes was dropped
C17_Witness ==
    /\ kpc = "toolong"
    /\ Len(utf8_encode(kin.text)) = 256
    /\ klog = << "ERROR: Text too long, dropping packet" >>

-----------------------------------------------------------------------------
(* The two roles together *)

\* The socket of the responder that listens on the requester's port
ExchangeSocket == CHOOSE i \in SockIds : IntVal(argv[i]) = IntVal(cargv[3])

\* What the requester printed is the text the responder's formatter gives, in
\* the language of the port, for the date and time printed with it
PrintedAgrees ==
    LET p    == cout[Len(cout)]
        lang == Languages[ExchangeSocket]
        dt   == [year |-> p.year, month |-> p.month, day |-> p.day,
                 hour |-> p.hour, minute |-> p.minute]
    IN
    /\ p.line = "response received"
    /\ p.lang = lang
    /\ p.text = IF cargv[1] = "date" THEN format_date(dt, lang)
                                     ELSE format_time(dt, lang)

\* C18: the two roles agree: the requester's DT-Request passes every check of
\* the responder (it is never dropped); every DT-Response the responder builds
\* with a clock year below 2100 passes every structural and semantic check of
\* the requester; a request that reaches the running responder is read; and
\* once such a response has arrived the requester eventually prints the
\* result, in the language of the port it asked, and exits with status 0.
C18_ExchangeAgreement ==
    /\ [](\A j \in 1..Len(readLog) :
            /\ readLog[j].data = RequestFor(cargv[1])
            /\ IsValidRequest(readLog[j].data)
            /\ readLog[j].outcome \in { "sent", "sendfail" })
    /\ [](\A i \in 1..Len(outbox) :
            RawYear(outbox[i].data) < 2100
               => (StructOK(outbox[i].data) /\ SemOK(outbox[i].data)))
    /\ []((cpc = "exited" /\ crecv = 1 /\ RawYear(response) < 2100)
             => (cexit = 0 /\ PrintedAgrees))
    /\ (events = 1 /\ spc \in { "loop", "select", "service" })
          ~> (Len(readLog) = 1)
    /\ (crecv = 1 /\ RawYear(response) < 2100)
          ~> (cpc = "exited" /\ cexit = 0 /\ Printed)

\* A time request to the third port was answered in German and printed
C18_Witness ==
    /\ cpc = "exited"
    /\ cexit = 0
    /\ cargv[1] = "time"
    /\ cport = 64000
    /\ Len(readLog) = 1 /\ readLog[1].sock = 3
    /\ cout[Len(cout)].line = "response received"
    /\ cout[Len(cout)].lang = "German"
    /\ cout[Len(cout)].year = 2099

-----------------------------------------------------------------------------
(* The requester's arguments and its socket *)

\* The command line is wrong: not three arguments, a request kind other than
\* date and time, a host that does not resolve, or a port that is not an
\* integer in [1024, 64000]
ConfigError(args) ==
    \/ Len(args) # 3
    \/ args[1] \notin { "date", "time" }
    \/ GetAddrInfo(args[2]) = 0
    \/ ~IntOk(args[3])
    \/ IntVal(args[3]) < 1024
    \/ IntVal(args[3]) > 64000

ConfigErrorLines ==
    { "ERROR: Incorrect number of command line arguments",
      "ERROR: Request type is not valid",
      "ERROR: Hostname resolution failed",
      "ERROR: Given port is not a positive integer",
      "ERROR: Given port is not in the range [1024, 64000]" }

\* C19: configuration errors are found before anything is done: with a wrong
\* command line the requester never creates a socket, sends or receives
\* nothing, does not get past its two validation steps, and when it has
\* exited the status is 1 and the last line names the error; with a right
\* command line it gets past them.
C19_ConfigErrorsArePreflight ==
    /\ ConfigError(cargv) =>
          /\ csock = "none"
          /\ csent = <<>>
          /\ crecv = 0
          /\ cpc \in { "start", "port", "exited" }
          /\ cpc = "exited" =>
                (cexit = 1 /\ Len(cout) = 1 /\ LastLine \in ConfigErrorLines)
    /\ (~ConfigError(cargv) /\ cpc = "exited") => LastLine \notin ConfigErrorLines

\* The requester refused port 64001
C19_Witness ==
    /\ cpc = "exited"
    /\ cargv = << "time", "localhost", A_64001 >>
    /\ cexit = 1
    /\ csock = "none"
    /\ LastLine = "ERROR: Given port is not in the range [1024, 64000]"

\* C20: whenever the requester has exited after creating its socket, the
\* socket has been closed.
C20_SocketClosedAtExit ==
    (cpc = "exited" /\ csock # "none") => csock = "closed"

=============================================================================
